---- MODULE Spec2Model ----
(***************************************************************************)
(* The hash-linked ledger of bl_gui.py: class Block, class Blockchain and  *)
(* the two Tkinter callbacks that drive it (add_transaction_gui and        *)
(* mine_block_gui).                                                        *)
(*                                                                         *)
(* Python strings are sequences of symbols; a symbol is a TLA+ string      *)
(* ("0", "a", "-", ...).  A name such as "Alice" is one symbol.            *)
(* Python lists are objects: `lists` is the heap of list objects and a     *)
(* list-valued field holds the position of its object in `lists`, so that  *)
(* two fields naming the same object see each other's appends.             *)
(***************************************************************************)
EXTENDS Integers, Sequences, FiniteSets, TLC

(* ------------------------------ bounds --------------------------------- *)
\* longest chain explored (genesis included)
MaxChain == 3
\* number of add_transaction calls made by the user over a run
MaxSubmit == 2
\* proof_of_work on its own (SpecPow) is given the seeds -MaxSeed..MaxSeed
MaxSeed == 20
\* the candidate counter of proof_of_work is explored up to this value
MaxProof == 20
\* number of distinct values of the stand-in digest
DigestSpace == 164

(* ------------------------------ strings -------------------------------- *)
Digits == <<"0", "1", "2", "3", "4", "5", "6", "7", "8", "9">>

HexDigits == <<"0", "1", "2", "3", "4", "5", "6", "7", "8", "9",
               "a", "b", "c", "d", "e", "f">>

\* every symbol a string of the model is made of; Ord gives its position
Alphabet == HexDigits \o
            <<"-", ".", ",", "'", "{", "}", "[", "]", "x",
              "index", "timestamp", "transactions", "proof", "previous_hash",
              "sender", "recipient", "amount",
              "Alice", "Bob", "miner_address">>

Ord(c) == CHOOSE i \in 1..Len(Alphabet) : Alphabet[i] = c

\* str.encode(): the bytes of a string
encode(s) ==
    CHOOSE b \in {[i \in 1..Len(str) |-> Ord(str[i])] : str \in {s}} : TRUE

RECURSIVE NatStr(_)
NatStr(n) == IF n < 10 THEN <<Digits[n + 1]>>
             ELSE NatStr(n \div 10) \o <<Digits[(n % 10) + 1]>>

\* str(n) / f"{n}" of a Python int
IntStr(n) == IF n < 0 THEN <<"-">> \o NatStr(-n) ELSE NatStr(n)

\* str(x) of a Python float holding a whole number
FloatStr(n) == IntStr(n) \o <<".", "0">>

\* repr of a Python str, as str(dict) prints a string value
Quoted(s) == <<"'">> \o s \o <<"'">>

(* ------------------------------ hashing -------------------------------- *)
\* hashlib.sha256 cannot be evaluated by TLC.  It is stood in for by a
\* deterministic digest over the same bytes with DigestSpace values, printed
\* as 5 hex characters, so that the 4-zero prefix of valid_proof is met by
\* the digests below 16 and missed by the others.
\* one byte taken into the running digest
Mix(h, b) == ((h + b + 1) ^ 2) % DigestSpace

\* the i-th byte of the message taken into the digest h, if there is one
Take(h, bytes, i) == IF i > Len(bytes) THEN h ELSE Mix(h, bytes[i])

\* a block of the message, the 8 bytes from the i-th on, taken into h
Update(h, bytes, i) ==
    Take(Take(Take(Take(Take(Take(Take(Take(h,
        bytes, i), bytes, i + 1), bytes, i + 2), bytes, i + 3),
        bytes, i + 4), bytes, i + 5), bytes, i + 6), bytes, i + 7)

\* the blocks from the i-th byte on taken into h one after another; the
\* digest after a block is a value before the next block is taken
RECURSIVE Absorb(_, _, _)
Absorb(h, bytes, i) ==
    IF i > Len(bytes) THEN h
    ELSE CHOOSE d \in {Absorb(g, bytes, i + 8) : g \in {Update(h, bytes, i)}} : TRUE

\* hashlib.sha256(message): the message is evaluated once
sha256(message) ==
    CHOOSE d \in {Absorb(5, bytes, 1) : bytes \in {message}} : TRUE

RECURSIVE HexStr(_, _)
HexStr(v, width) == IF width = 0 THEN <<>>
                    ELSE HexStr(v \div 16, width - 1) \o <<HexDigits[(v % 16) + 1]>>

hexdigest(v) == HexStr(v, 5)

(* --------------------------- proof of work ----------------------------- *)
\* Blockchain.valid_proof
valid_proof(lp, p) ==
    LET guess == encode(IntStr(lp) \o IntStr(p))
        guess_hash == hexdigest(sha256(guess))
    IN  SubSeq(guess_hash, 1, 4) = <<"0", "0", "0", "0">>

(* ------------------------------- blocks -------------------------------- *)
\* str(amount): an amount is a Python number, int or float
AmountStr(a) == IF a.isfloat THEN FloatStr(a.num) ELSE IntStr(a.num)

\* str() of one transaction dict
TxStr(tx) == <<"{", "sender">> \o Quoted(tx.sender) \o
             <<",", "recipient">> \o Quoted(tx.recipient) \o
             <<",", "amount">> \o AmountStr(tx.amount) \o <<"}">>

\* str() of a list of transaction dicts
RECURSIVE ListStr(_)
ListStr(txs) == IF txs = <<>> THEN <<>>
                ELSE TxStr(Head(txs)) \o <<",">> \o ListStr(Tail(txs))

\* Block.to_dict: the transactions field is read through the list object
to_dict(block, heap) ==
    [index         |-> block.index,
     timestamp     |-> block.timestamp,
     transactions  |-> heap[block.transactions],
     proof         |-> block.proof,
     previous_hash |-> block.previous_hash]

\* str(dict): the fields in insertion order
DictStr(d) == <<"{", "index">> \o IntStr(d.index) \o
              <<",", "timestamp">> \o FloatStr(d.timestamp) \o
              <<",", "transactions", "[">> \o ListStr(d.transactions) \o
              <<"]", ",", "proof">> \o IntStr(d.proof) \o
              <<",", "previous_hash">> \o Quoted(d.previous_hash) \o <<"}">>

\* Blockchain.hash
hash(block, heap) ==
    LET block_string == encode(DictStr(to_dict(block, heap)))
    IN  hexdigest(sha256(block_string))

(* ------------------------------ Blockchain ----------------------------- *)
\* Optional[str]
None == [some |-> FALSE, val |-> <<>>]
Some(s) == [some |-> TRUE, val |-> s]
\* truth value of an Optional[str] operand of `or`
Truthy(o) == o.some /\ o.val # <<>>

\* outcome of a call: the object after it, the value returned, the exception
Return(self, v) == [self |-> self, value |-> v, raised |-> "none"]
Raise(self, e) == [self |-> self, value |-> 0, raised |-> e]

\* create_block hashing chain[0] where the code hashes chain[-1]
create_block_first(self, p, previous_hash, now) ==
    IF ~Truthy(previous_hash) /\ self.chain = <<>>
    THEN Raise(self, "IndexError")
    ELSE
    LET block == [index         |-> Len(self.chain) + 1,
                  timestamp     |-> now,
                  transactions  |-> self.pending_transactions,
                  proof         |-> p,
                  previous_hash |-> IF Truthy(previous_hash)
                                    THEN previous_hash.val
                                    ELSE hash(self.chain[1], self.heap)]
    IN  Return([chain                |-> Append(self.chain, block),
                heap                 |-> Append(self.heap, <<>>),
                pending_transactions |-> Len(self.heap) + 1],
               block)

\* create_block emptying the queue with pending_transactions.clear(), which
\* empties the list object the new block holds as well
create_block_clear(self, p, previous_hash, now) ==
    IF ~Truthy(previous_hash) /\ self.chain = <<>>
    THEN Raise(self, "IndexError")
    ELSE
    LET block == [index         |-> Len(self.chain) + 1,
                  timestamp     |-> now,
                  transactions  |-> self.pending_transactions,
                  proof         |-> p,
                  previous_hash |-> IF Truthy(previous_hash)
                                    THEN previous_hash.val
                                    ELSE hash(self.chain[Len(self.chain)],
                                              self.heap)]
    IN  Return([chain                |-> Append(self.chain, block),
                heap                 |-> [self.heap EXCEPT
                                            ![self.pending_transactions] = <<>>],
                pending_transactions |-> self.pending_transactions],
               block)

\* create_block without line 41: the queue is not reset
create_block_keep(self, p, previous_hash, now) ==
    IF ~Truthy(previous_hash) /\ self.chain = <<>>
    THEN Raise(self, "IndexError")
    ELSE
    LET block == [index         |-> Len(self.chain) + 1,
                  timestamp     |-> now,
                  transactions  |-> self.pending_transactions,
                  proof         |-> p,
                  previous_hash |-> IF Truthy(previous_hash)
                                    THEN previous_hash.val
                                    ELSE hash(self.chain[Len(self.chain)],
                                              self.heap)]
    IN  Return([chain                |-> Append(self.chain, block),
                heap                 |-> self.heap,
                pending_transactions |-> self.pending_transactions],
               block)

\* create_block numbering the block len(chain) + len(pending_transactions)
create_block_count(self, p, previous_hash, now) ==
    IF ~Truthy(previous_hash) /\ self.chain = <<>>
    THEN Raise(self, "IndexError")
    ELSE
    LET block == [index         |-> Len(self.chain) +
                                    Len(self.heap[self.pending_transactions]),
                  timestamp     |-> now,
                  transactions  |-> self.pending_transactions,
                  proof         |-> p,
                  previous_hash |-> IF Truthy(previous_hash)
                                    THEN previous_hash.val
                                    ELSE hash(self.chain[Len(self.chain)],
                                              self.heap)]
    IN  Return([chain                |-> Append(self.chain, block),
                heap                 |-> Append(self.heap, <<>>),
                pending_transactions |-> Len(self.heap) + 1],
               block)

\* Blockchain.last_block
last_block(self) == self.chain[Len(self.chain)]

\* create_block hashing chain[-1] before it looks at previous_hash
create_block_eager(self, p, previous_hash, now) ==
    IF self.chain = <<>>
    THEN Raise(self, "IndexError")
    ELSE
    LET block == [index         |-> Len(self.chain) + 1,
                  timestamp     |-> now,
                  transactions  |-> self.pending_transactions,
                  proof         |-> p,
                  previous_hash |-> IF Truthy(previous_hash)
                                    THEN previous_hash.val
                                    ELSE hash(self.chain[Len(self.chain)],
                                              self.heap)]
    IN  Return([chain                |-> Append(self.chain, block),
                heap                 |-> Append(self.heap, <<>>),
                pending_transactions |-> Len(self.heap) + 1],
               block)

\* create_block refusing a proof that valid_proof rejects
create_block_checked(self, p, previous_hash, now) ==
    IF ~Truthy(previous_hash) /\ self.chain = <<>>
    THEN Raise(self, "IndexError")
    ELSE IF self.chain # <<>> /\ ~valid_proof(last_block(self).proof, p)
    THEN Raise(self, "ValueError")
    ELSE
    LET block == [index         |-> Len(self.chain) + 1,
                  timestamp     |-> now,
                  transactions  |-> self.pending_transactions,
                  proof         |-> p,
                  previous_hash |-> IF Truthy(previous_hash)
                                    THEN previous_hash.val
                                    ELSE hash(self.chain[Len(self.chain)],
                                              self.heap)]
    IN  Return([chain                |-> Append(self.chain, block),
                heap                 |-> Append(self.heap, <<>>),
                pending_transactions |-> Len(self.heap) + 1],
               block)

\* Blockchain.create_block; now is what time.time() returns
create_block(self, p, previous_hash, now) ==
    IF ~Truthy(previous_hash) /\ self.chain = <<>>
    THEN Raise(self, "IndexError")
    ELSE
    LET Block == [index         |-> Len(self.chain) + 1,
                  timestamp     |-> now,
                  transactions  |-> self.pending_transactions,
                  proof         |-> p,
                  previous_hash |-> IF Truthy(previous_hash)
                                    THEN previous_hash.val
                                    ELSE hash(self.chain[Len(self.chain)],
                                              self.heap)]
    IN  CHOOSE r \in {Return([chain                |-> Append(self.chain, block),
                              heap                 |-> Append(self.heap, <<>>),
                              pending_transactions |-> Len(self.heap) + 1],
                             block) : block \in {Block}} : TRUE

\* add_transaction with insert(0, transaction) where the code appends
add_transaction_front(self, sender, recipient, amount) ==
    LET transaction == [sender |-> sender, recipient |-> recipient,
                        amount |-> amount]
        appended == [self EXCEPT
                       !.heap[self.pending_transactions] = <<transaction>> \o @]
    IN  IF self.chain = <<>> THEN Raise(appended, "IndexError")
        ELSE Return(appended, last_block(appended).index + 1)

\* add_transaction returning the position of the transaction in the queue
add_transaction_position(self, sender, recipient, amount) ==
    LET transaction == [sender |-> sender, recipient |-> recipient,
                        amount |-> amount]
        appended == [self EXCEPT
                       !.heap[self.pending_transactions] = Append(@, transaction)]
    IN  IF self.chain = <<>> THEN Raise(appended, "IndexError")
        ELSE Return(appended, Len(appended.heap[appended.pending_transactions]))

\* add_transaction returning last_block.index + 2
add_transaction_plus_two(self, sender, recipient, amount) ==
    LET transaction == [sender |-> sender, recipient |-> recipient,
                        amount |-> amount]
        appended == [self EXCEPT
                       !.heap[self.pending_transactions] = Append(@, transaction)]
    IN  IF self.chain = <<>> THEN Raise(appended, "IndexError")
        ELSE Return(appended, last_block(appended).index + 2)

\* Blockchain.add_transaction
add_transaction(self, sender, recipient, amount) ==
    LET transaction == [sender |-> sender, recipient |-> recipient,
                        amount |-> amount]
        appended == [self EXCEPT
                       !.heap[self.pending_transactions] = Append(@, transaction)]
    IN  IF self.chain = <<>> THEN Raise(appended, "IndexError")
        ELSE Return(appended, last_block(appended).index + 1)

\* Blockchain.__init__
Blockchain(now) ==
    create_block([chain |-> <<>>, heap |-> << <<>> >>, pending_transactions |-> 1],
                 1, Some(<<"0">>), now)

(* ------------------------------- inputs -------------------------------- *)
IsDigit(c) == \E i \in 1..Len(Digits) : Digits[i] = c
DigitVal(c) == (CHOOSE i \in 1..Len(Digits) : Digits[i] = c) - 1

RECURSIVE ParseNat(_, _)
ParseNat(acc, s) == IF s = <<>> THEN acc
                    ELSE ParseNat(acc * 10 + DigitVal(Head(s)), Tail(s))

\* float(text) over texts made of an optional sign and decimal digits; any
\* other text of AmountTexts raises ValueError
float(text) ==
    LET body == IF text # <<>> /\ Head(text) = "-" THEN Tail(text) ELSE text
        sign == IF text # <<>> /\ Head(text) = "-" THEN -1 ELSE 1
    IN  IF body # <<>> /\ \A i \in 1..Len(body) : IsDigit(body[i])
        THEN Return(<<>>, [num |-> sign * ParseNat(0, body), isfloat |-> TRUE])
        ELSE Raise(<<>>, "ValueError")

\* what the user types into sender_entry, recipient_entry, amount_entry
Entries == { << <<"Alice">>, <<"Bob">>, <<"1", "0">> >>,
             << <<>>, <<>>, <<"-", "1">> >>,
             << <<"0">>, <<"miner_address">>, <<"1">> >>,
             << <<"Alice">>, <<"Bob">>, <<"a", "b", "c">> >>,
             << <<"Bob">>, <<"Alice">>, <<>> >> }

\* arguments of a direct call of add_transaction
Arguments == { << <<>>, <<"Bob">>, [num |-> 0, isfloat |-> FALSE] >>,
               << <<"Alice">>, <<>>, [num |-> -1, isfloat |-> TRUE] >> }

\* proofs handed to a direct call of create_block
Proofs == {3, 7}

\* readings of time.time(): two suffice to tell equal timestamps from
\* different ones, and nothing in the program compares them
Timestamps == {0, 1}

(* -------------------------------- state -------------------------------- *)
VARIABLES
    blockchain,   \* the module-level Blockchain object (with its list objects)
    pc,           \* position of the running callback; "idle" in the main loop
    last_proof,   \* local of mine_block_gui
    proof,        \* local of mine_block_gui / proof_of_work
    messagebox,   \* title of the last dialog shown
    error,        \* exception that left the last operation, or "none"
    calls,        \* history: arguments and return value of every add_transaction
    entry,        \* history: the ledger as it was when mine_block_gui was called
    args          \* history: what the last operation started was given

vars == <<blockchain, pc, last_proof, proof, messagebox, error, calls, entry,
          args>>

chain == blockchain.chain
\* contents of the pending queue
pending == blockchain.heap[blockchain.pending_transactions]
\* contents of the transactions of a block
transactions(block) == blockchain.heap[block.transactions]

NoEntry == [chain |-> <<>>, pending |-> <<>>]

Call(by, sender, recipient, amount, r) ==
    [by |-> by, sender |-> sender, recipient |-> recipient, amount |-> amount,
     value |-> r.value, raised |-> r.raised,
     at |-> Len(chain), last_index |-> last_block(blockchain).index]

UserCalls == Cardinality({k \in 1..Len(calls) : calls[k].by # "mine_block_gui"})

\* blockchain = Blockchain()
Init ==
    /\ \E now \in Timestamps : /\ blockchain = Blockchain(now).self
                               /\ error = Blockchain(now).raised
    /\ pc = "idle"
    /\ last_proof = 0
    /\ proof = 0
    /\ messagebox = "none"
    /\ calls = <<>>
    /\ entry = NoEntry
    /\ args = <<>>

(* ------------------------------ callbacks ------------------------------ *)
\* add_transaction_gui enqueuing amount 0.0 when the text is no number
add_transaction_gui_default ==
    /\ pc = "idle"
    /\ \E e \in Entries :
         LET sender == e[1]
             recipient == e[2]
             amount == IF float(e[3]).raised = "ValueError"
                       THEN Return(<<>>, [num |-> 0, isfloat |-> TRUE])
                       ELSE float(e[3])
             r == add_transaction(blockchain, sender, recipient, amount.value)
         IN  /\ args' = e
             /\ UserCalls < MaxSubmit
             /\ blockchain' = r.self
             /\ calls' = Append(calls, Call("add_transaction_gui", sender,
                                            recipient, amount.value, r))
             /\ messagebox' = IF float(e[3]).raised = "ValueError" THEN "Error"
                              ELSE "Success"
             /\ error' = r.raised
    /\ UNCHANGED <<pc, last_proof, proof, entry>>

\* add_transaction_gui run while another callback has not returned
add_transaction_gui_anytime ==
    /\ \E e \in Entries :
         LET sender == e[1]
             recipient == e[2]
             amount == float(e[3])
             r == add_transaction(blockchain, sender, recipient, amount.value)
         IN  /\ args' = e
             /\ IF amount.raised = "ValueError"
                THEN /\ messagebox' = "Error"
                     /\ error' = "none"
                     /\ UNCHANGED <<blockchain, calls>>
                ELSE /\ UserCalls < MaxSubmit
                     /\ blockchain' = r.self
                     /\ calls' = Append(calls, Call("add_transaction_gui", sender,
                                                    recipient, amount.value, r))
                     /\ messagebox' = IF r.raised = "none" THEN "Success"
                                      ELSE messagebox
                     /\ error' = r.raised
    /\ UNCHANGED <<pc, last_proof, proof, entry>>

\* add_transaction_gui
add_transaction_gui ==
    /\ pc = "idle"
    /\ \E e \in Entries :
         LET sender == e[1]
             recipient == e[2]
             amount == float(e[3])
             r == add_transaction(blockchain, sender, recipient, amount.value)
         IN  /\ args' = e
             /\ IF amount.raised = "ValueError"
                THEN /\ messagebox' = "Error"
                     /\ error' = "none"
                     /\ UNCHANGED <<blockchain, calls>>
                ELSE /\ UserCalls < MaxSubmit
                     /\ blockchain' = r.self
                     /\ calls' = Append(calls, Call("add_transaction_gui", sender,
                                                    recipient, amount.value, r))
                     /\ messagebox' = IF r.raised = "none" THEN "Success"
                                      ELSE messagebox
                     /\ error' = r.raised
    /\ UNCHANGED <<pc, last_proof, proof, entry>>

\* mine_block_gui seeding the search from the first block of the chain
mine_begin_first ==
    /\ pc = "idle"
    /\ Len(chain) < MaxChain
    /\ last_proof' = blockchain.chain[1].proof
    /\ proof' = 0
    /\ pc' = "proof_of_work"
    /\ entry' = [chain |-> chain, pending |-> pending]
    /\ args' = <<>>
    /\ UNCHANGED <<blockchain, messagebox, error, calls>>

\* mine_block_gui appending the reward before it starts the search
mine_begin_reward ==
    /\ pc = "idle"
    /\ Len(chain) < MaxChain
    /\ last_proof' = last_block(blockchain).proof
    /\ proof' = 0
    /\ pc' = "proof_of_work"
    /\ entry' = [chain |-> chain, pending |-> pending]
    /\ args' = <<>>
    /\ LET amount == [num |-> 1, isfloat |-> FALSE]
           r == add_transaction(blockchain, <<"0">>, <<"miner_address">>, amount)
       IN  /\ blockchain' = r.self
           /\ calls' = Append(calls, Call("mine_block_gui", <<"0">>,
                                          <<"miner_address">>, amount, r))
           /\ error' = r.raised
    /\ UNCHANGED messagebox

\* mine_block_gui, line 104: read the seed and enter proof_of_work
mine_begin ==
    /\ pc = "idle"
    /\ Len(chain) < MaxChain
    /\ last_proof' = last_block(blockchain).proof
    /\ proof' = 0
    /\ pc' = "proof_of_work"
    /\ entry' = [chain |-> chain, pending |-> pending]
    /\ args' = <<>>
    /\ UNCHANGED <<blockchain, messagebox, error, calls>>

\* proof_of_work stepping the candidate by two
pow_iter_skip ==
    /\ pc = "proof_of_work"
    /\ ~valid_proof(last_proof, proof)
    /\ proof < MaxProof
    /\ proof' = proof + 2
    /\ UNCHANGED <<blockchain, pc, last_proof, messagebox, error, calls, entry, args>>

\* proof_of_work without the increment of line 72
pow_iter_stuck ==
    /\ pc = "proof_of_work"
    /\ ~valid_proof(last_proof, proof)
    /\ proof < MaxProof
    /\ proof' = proof
    /\ UNCHANGED <<blockchain, pc, last_proof, messagebox, error, calls, entry, args>>

\* proof_of_work: one turn of the while loop
pow_iter ==
    /\ pc = "proof_of_work"
    /\ ~valid_proof(last_proof, proof)
    /\ proof < MaxProof
    /\ proof' = proof + 1
    /\ UNCHANGED <<blockchain, pc, last_proof, messagebox, error, calls, entry, args>>

\* proof_of_work: the loop condition fails and proof is returned
pow_return ==
    /\ pc = "proof_of_work"
    /\ valid_proof(last_proof, proof)
    /\ pc' = "add_transaction"
    /\ UNCHANGED <<blockchain, last_proof, proof, messagebox, error, calls, entry, args>>

\* mine_block_gui without line 106
mine_reward_none ==
    /\ pc = "add_transaction"
    /\ pc' = "create_block"
    /\ UNCHANGED <<blockchain, calls, error, last_proof, proof, messagebox, entry, args>>

\* mine_block_gui, line 106: the reward
mine_reward ==
    /\ pc = "add_transaction"
    /\ LET amount == [num |-> 1, isfloat |-> FALSE]
           r == add_transaction(blockchain, <<"0">>, <<"miner_address">>, amount)
       IN  /\ blockchain' = r.self
           /\ calls' = Append(calls, Call("mine_block_gui", <<"0">>,
                                          <<"miner_address">>, amount, r))
           /\ error' = r.raised
    /\ pc' = "create_block"
    /\ UNCHANGED <<last_proof, proof, messagebox, entry, args>>

\* mine_block_gui, lines 107-109: seal, report, return to the main loop
mine_seal ==
    /\ pc = "create_block"
    /\ \E now \in Timestamps :
         \E r \in {create_block(blockchain, proof, None, now)} :
             /\ blockchain' = r.self
             /\ error' = r.raised
             /\ messagebox' = IF r.raised = "none" THEN "Success" ELSE messagebox
    /\ pc' = "idle"
    /\ last_proof' = 0
    /\ proof' = 0
    /\ entry' = NoEntry
    /\ UNCHANGED <<calls, args>>

Next ==
    \/ add_transaction_gui
    \/ mine_begin
    \/ pow_iter
    \/ pow_return
    \/ mine_reward
    \/ mine_seal

Spec == Init /\ [][Next]_vars

\* a callback that has started keeps running: Python executes the next
\* statement of mine_block_gui and of proof_of_work; clicks are up to the user
Running ==
    /\ WF_vars(pow_iter)
    /\ WF_vars(pow_return)
    /\ WF_vars(mine_reward)
    /\ WF_vars(mine_seal)

SpecFair == Spec /\ Running

(* ----------------------- the ledger called directly -------------------- *)
\* add_transaction called by any client of the class
submit_transaction ==
    /\ pc = "idle"
    /\ UserCalls < MaxSubmit
    /\ \E a \in Arguments :
         LET r == add_transaction(blockchain, a[1], a[2], a[3])
         IN  /\ blockchain' = r.self
             /\ calls' = Append(calls, Call("submit_transaction", a[1], a[2], a[3], r))
             /\ error' = r.raised
             /\ args' = a
    /\ UNCHANGED <<pc, last_proof, proof, messagebox, entry>>

\* create_block(proof) called by any client of the class
seal_block ==
    /\ pc = "idle"
    /\ Len(chain) < MaxChain
    /\ \E p \in Proofs, now \in Timestamps :
         LET r == create_block(blockchain, p, None, now)
         IN  /\ blockchain' = r.self
             /\ error' = r.raised
             /\ args' = <<p>>
    /\ UNCHANGED <<pc, last_proof, proof, messagebox, calls, entry>>

NextLedger ==
    \/ submit_transaction
    \/ seal_block
    \/ mine_begin
    \/ pow_iter
    \/ pow_return
    \/ mine_reward
    \/ mine_seal

SpecLedger == Init /\ [][NextLedger]_vars

(* ----------------------- proof_of_work on its own ---------------------- *)
\* proof_of_work(seed) has just been entered
InitPow ==
    /\ \E now \in Timestamps : /\ blockchain = Blockchain(now).self
                               /\ error = Blockchain(now).raised
    /\ pc = "proof_of_work"
    /\ last_proof \in -MaxSeed..MaxSeed
    /\ proof = 0
    /\ messagebox = "none"
    /\ calls = <<>>
    /\ entry = NoEntry
    /\ args = <<last_proof>>

NextPow ==
    \/ pow_iter
    \/ pow_return

SpecPow == InitPow /\ [][NextPow]_vars

(* ------------------------------ properties ----------------------------- *)
heap == blockchain.heap
Reward == [sender |-> <<"0">>, recipient |-> <<"miner_address">>,
           amount |-> [num |-> 1, isfloat |-> FALSE]]
\* the transaction a recorded call asked for
Asked(c) == [sender |-> c.sender, recipient |-> c.recipient, amount |-> c.amount]

\* C1 (hash chaining): in every state reached by add_transaction,
\* create_block(proof) and mining, the previous_hash of every block after the
\* first equals hash() of the block before it, taken over that block's
\* current fields.
HashChaining ==
    \A i \in 1..(Len(chain) - 1) :
        chain[i + 1].previous_hash = hash(chain[i], heap)

\* three blocks, the middle one holding transactions, and a queue refilled
\* after the last seal
HashChainingWitness ==
    /\ Len(chain) = 3
    /\ transactions(chain[2]) # <<>>
    /\ pending # <<>>

\* C2 (proof validity): in every state reached by the callbacks, every block
\* after the first holds a proof that valid_proof accepts against the proof
\* of the block before it.
ProofValidity ==
    \A i \in 2..Len(chain) : valid_proof(chain[i - 1].proof, chain[i].proof)

\* two mined blocks, the second mined from the proof of the first
ProofValidityWitness ==
    /\ Len(chain) = 3
    /\ pc = "idle"
    /\ chain[3].proof # chain[2].proof

\* C3 (genesis): after construction the chain is one block with index 1,
\* previous_hash "0", proof 1 and no transactions, and the queue is empty;
\* the first block keeps these values in every later state.
GenesisKept ==
    /\ Len(chain) >= 1
    /\ chain[1].index = 1
    /\ chain[1].previous_hash = <<"0">>
    /\ chain[1].proof = 1
    /\ transactions(chain[1]) = <<>>

GenesisInvariant ==
    /\ Len(chain) = 1
    /\ pending = <<>>
    /\ []GenesisKept

\* a later state: blocks sealed after the first and transactions queued
GenesisWitness ==
    /\ Len(chain) >= 2
    /\ Len(pending) >= 2
    /\ chain[1].proof = 1

\* C4 (queue transfer): when mine_block_gui returns, the chain is the chain
\* of the moment of the call plus one block, that block's transactions are
\* the queue of the moment of the call followed by the reward, and the queue
\* is empty.
QueueTransfer ==
    [][mine_seal =>
        /\ Len(chain') = Len(entry.chain) + 1
        /\ SubSeq(chain', 1, Len(entry.chain)) = entry.chain
        /\ blockchain'.heap[chain'[Len(chain')].transactions]
             = Append(entry.pending, Reward)
        /\ blockchain'.heap[blockchain'.pending_transactions] = <<>>]_vars

\* a block mined from a queue of two transactions
QueueTransferWitness ==
    /\ pc = "idle"
    /\ Len(chain) >= 2
    /\ Len(transactions(chain[Len(chain)])) = 3
    /\ transactions(chain[Len(chain)])[3] = Reward
    /\ pending = <<>>

\* C5 (monotonic indices): the block at position k has index k, whatever
\* number of transactions each block took.
MonotonicIndices ==
    \A k \in 1..Len(chain) : chain[k].index = k

\* a block sealed from an empty queue followed by one sealed from a full one
MonotonicIndicesWitness ==
    /\ Len(chain) = 3
    /\ transactions(chain[2]) = <<>>
    /\ Len(transactions(chain[3])) >= 2

\* C6 (difficulty contract): the value proof_of_work returns for a seed is
\* accepted by valid_proof, is not negative, and no smaller candidate from 0
\* up is accepted.
DifficultyContract ==
    pc = "add_transaction" =>
        /\ proof >= 0
        /\ valid_proof(last_proof, proof)
        /\ \A c \in 0..(proof - 1) : ~valid_proof(last_proof, c)

\* a search that returned after rejecting ten candidates or more
DifficultyContractWitness ==
    /\ pc = "add_transaction"
    /\ proof >= 10

\* C7 as stated: add_transaction returns the index of the last block plus 2.
ReturnsIndexPlusTwo ==
    \A k \in 1..Len(calls) : calls[k].value = calls[k].last_index + 2

\* C7 (return value): add_transaction returns the index of the last block
\* plus 1.
ReturnsIndexPlusOne ==
    \A k \in 1..Len(calls) : calls[k].value = calls[k].last_index + 1

\* calls made by the user and by mining, on chains of different lengths
ReturnsIndexWitness ==
    /\ Len(calls) >= 3
    /\ \E j, k \in 1..Len(calls) :
         /\ calls[j].last_index = 1
         /\ calls[k].last_index = 2
         /\ calls[j].by = "add_transaction_gui"

\* C8 (the block a transaction lands in): the first block sealed after a call
\* of add_transaction has the index the call returned and contains the
\* transaction the call asked for.
LandsInReturnedBlock ==
    \A k \in 1..Len(calls) :
        Len(chain) > calls[k].at =>
            LET block == chain[calls[k].at + 1]
            IN  /\ block.index = calls[k].value
                /\ \E j \in 1..Len(transactions(block)) :
                     transactions(block)[j] = Asked(calls[k])

\* a transaction the user added after the first mined block, now sealed
LandsInReturnedBlockWitness ==
    \E k \in 1..Len(calls) :
        /\ calls[k].by = "add_transaction_gui"
        /\ calls[k].at = 2
        /\ Len(chain) = 3

\* C9 (effect and frame of add_transaction): every call, whatever its
\* arguments, raises nothing, puts exactly the transaction asked for at the
\* end of the queue, keeps the entries before it, and leaves the chain and
\* the transactions of its blocks as they were.
SubmitEffect ==
    [][Len(calls') > Len(calls) =>
        LET c == calls'[Len(calls')]
        IN  /\ c.raised = "none"
            /\ error' = "none"
            /\ blockchain'.pending_transactions = blockchain.pending_transactions
            /\ blockchain'.heap[blockchain'.pending_transactions]
                 = Append(pending, Asked(c))
            /\ chain' = chain
            /\ \A i \in 1..Len(chain) :
                 blockchain'.heap[chain[i].transactions] = transactions(chain[i])
      ]_vars

\* a call with empty strings or a non-positive amount behind an earlier entry
SubmitEffectWitness ==
    /\ Len(pending) >= 2
    /\ \E k \in 1..Len(calls) :
         /\ calls[k].amount.num <= 0
         /\ (calls[k].sender = <<>> \/ calls[k].recipient = <<>>)
         /\ pending[2] = Asked(calls[k])

\* C10 (append-only chain): every step keeps the blocks already in the chain,
\* fields and transactions, at their positions; a seal (create_block called
\* directly or by mining) adds exactly one block and any other step none.
AppendOnly ==
    [][/\ Len(chain') >= Len(chain)
       /\ SubSeq(chain', 1, Len(chain)) = chain
       /\ \A i \in 1..Len(chain) :
            blockchain'.heap[chain[i].transactions] = transactions(chain[i])
       /\ Len(chain') = Len(chain) + (IF seal_block \/ mine_seal THEN 1 ELSE 0)
      ]_vars

\* a chain grown by a direct seal and by mining, with transactions in blocks
\* and in the queue
AppendOnlyWitness ==
    /\ Len(chain) = 3
    /\ pc = "idle"
    /\ transactions(chain[3]) # <<>>
    /\ chain[2].proof = 7
    /\ valid_proof(chain[2].proof, chain[3].proof)
    /\ pending # <<>>

\* C11 (sealed transactions are not the live queue): a call of
\* add_transaction made after a seal leaves the transactions and the hash of
\* every block as they were; the list a block holds is not the list of the
\* queue, and the new entry shows in the queue only.
NotAliased ==
    [][Len(calls') > Len(calls) =>
        /\ \A i \in 1..Len(chain) :
             /\ chain[i].transactions # blockchain.pending_transactions
             /\ blockchain'.heap[chain[i].transactions] = transactions(chain[i])
             /\ hash(chain'[i], blockchain'.heap) = hash(chain[i], heap)
        /\ pending' = Append(pending, Asked(calls'[Len(calls')]))
      ]_vars

\* a block holding transactions, and two later entries in the queue
NotAliasedWitness ==
    /\ Len(chain) >= 2
    /\ transactions(chain[Len(chain)]) # <<>>
    /\ Len(pending) = 2
    /\ pc = "idle"

\* C12 (atomic seal): across every step, the chain grows exactly when the
\* queue is handed over: a step that adds a block adds one block holding the
\* whole queue and leaves the queue empty, and a step that takes entries out
\* of the queue adds the block that holds them.
SealAtomic ==
    [][/\ Len(chain') > Len(chain) =>
            /\ Len(chain') = Len(chain) + 1
            /\ blockchain'.heap[chain'[Len(chain')].transactions] = pending
            /\ pending' = <<>>
       /\ ~(/\ Len(pending') >= Len(pending)
            /\ SubSeq(pending', 1, Len(pending)) = pending) =>
            /\ Len(chain') = Len(chain) + 1
            /\ blockchain'.heap[chain'[Len(chain')].transactions] = pending
      ]_vars

\* back in the main loop after a seal that took a queue of two entries
SealAtomicWitness ==
    /\ pc = "idle"
    /\ Len(chain) >= 2
    /\ Len(transactions(chain[Len(chain)])) = 2
    /\ chain[Len(chain)].proof = 7
    /\ pending = <<>>

\* C13 (totality): the chain is never empty, and neither the constructor's
\* create_block on the empty chain nor any later create_block, add_transaction
\* or mining step raises.
Total ==
    /\ Len(chain) >= 1
    /\ error = "none"
    /\ \A k \in 1..Len(calls) : calls[k].raised = "none"

\* a chain built by the constructor, by mining and by a direct create_block
TotalWitness ==
    /\ Len(chain) = 3
    /\ pc = "idle"
    /\ \E k \in 1..Len(calls) : calls[k].by = "mine_block_gui" /\ calls[k].at = 1
    /\ chain[3].proof = 7
    /\ transactions(chain[3]) = <<>>

\* the amount texts of Entries that are numbers, and the numbers they are
IsNumber(text) == text \in { <<"1", "0">>, <<"-", "1">>, <<"1">> }
Number(text) == [num |-> CASE text = <<"1", "0">> -> 10
                           [] text = <<"-", "1">> -> -1
                           [] text = <<"1">> -> 1,
                 isfloat |-> TRUE]

\* C14 (malformed amount): add_transaction_gui given an amount text that is
\* no number shows the error dialog and leaves chain, queue and call history
\* as they were; given a number it enqueues exactly one transaction with the
\* typed sender and recipient and that number.
MalformedRejected ==
    [][add_transaction_gui =>
        IF ~IsNumber(args'[3])
        THEN /\ messagebox' = "Error"
             /\ blockchain' = blockchain
             /\ calls' = calls
        ELSE /\ Len(calls') = Len(calls) + 1
             /\ chain' = chain
             /\ pending' = Append(pending, [sender |-> args'[1],
                                            recipient |-> args'[2],
                                            amount |-> Number(args'[3])])
      ]_vars

\* the error dialog after "abc" was typed, with an earlier entry still queued
MalformedRejectedWitness ==
    /\ Len(args) = 3
    /\ messagebox = "Error"
    /\ args[3] = <<"a", "b", "c">>
    /\ Len(pending) >= 1
    /\ Len(chain) >= 2

\* C15 as stated: the reward is in the queue while proof_of_work runs.
RewardBeforeSearch ==
    pc = "proof_of_work" =>
        /\ Len(pending) = Len(entry.pending) + 1
        /\ pending[Len(pending)] = Reward

\* C15 (order of the steps of mining): the seed is the proof of the last
\* block and the search runs on the queue as it was at the call; the reward
\* is appended after the search has returned a valid proof, and the seal
\* comes last, on the chain as it was at the call.
SearchBeforeReward ==
    /\ pc = "proof_of_work" =>
         /\ pending = entry.pending
         /\ chain = entry.chain
         /\ last_proof = last_block(blockchain).proof
    /\ pc = "add_transaction" =>
         /\ pending = entry.pending
         /\ chain = entry.chain
         /\ valid_proof(last_proof, proof)
    /\ pc = "create_block" =>
         /\ pending = Append(entry.pending, Reward)
         /\ chain = entry.chain
         /\ valid_proof(last_proof, proof)

\* the search under way, candidates already rejected, a transaction queued
SearchBeforeRewardWitness ==
    /\ pc = "proof_of_work"
    /\ proof >= 2
    /\ Len(pending) >= 1

\* C16 (no interleaving): while mine_block_gui has not returned, the chain is
\* the chain of the call, the seed is the proof of its last block, and the
\* queue is the queue of the call, with the callback's own reward behind it
\* once line 106 has run; so a mining callback starts only after the one
\* before it has sealed, seeded by the block that one sealed.
NotInterleaved ==
    pc # "idle" =>
        LET own == IF pc = "create_block" THEN 1 ELSE 0
        IN  /\ chain = entry.chain
            /\ last_proof = chain[Len(chain)].proof
            /\ Len(pending) = Len(entry.pending) + own
            /\ SubSeq(pending, 1, Len(entry.pending)) = entry.pending
            /\ own = 1 => calls[Len(calls)].by = "mine_block_gui"

\* a second mining callback about to seal, seeded by the block the first mined
NotInterleavedWitness ==
    /\ pc = "create_block"
    /\ Len(chain) = 2
    /\ last_proof = chain[2].proof
    /\ last_proof # chain[1].proof
    /\ Len(pending) >= 2

\* C17 (no re-validation): create_block(p) called on the chain appends a
\* block whose proof is p, valid or not, whose previous_hash is hash() of the
\* block that was last, and leaves the queue empty, raising nothing.
AcceptsAnyProof ==
    [][seal_block =>
        /\ Len(chain') = Len(chain) + 1
        /\ chain'[Len(chain')].proof = args'[1]
        /\ chain'[Len(chain')].previous_hash = hash(chain[Len(chain)], heap)
        /\ SubSeq(chain', 1, Len(chain)) = chain
        /\ pending' = <<>>
        /\ error' = "none"
      ]_vars

\* a block sealed with a proof that valid_proof rejects
AcceptsAnyProofWitness ==
    /\ pc = "idle"
    /\ Len(chain) >= 2
    /\ args = <<chain[Len(chain)].proof>>
    /\ ~valid_proof(chain[Len(chain) - 1].proof, chain[Len(chain)].proof)

\* C18 (mining terminates): a mining callback whose search still has a
\* candidate up to MaxProof that valid_proof accepts for its seed, or whose
\* search has returned, gets back to the main loop; and it gets back there
\* only by appending one block, which holds the proof the search found.
MiningTerminates ==
    /\ (\/ /\ pc = "proof_of_work"
            /\ \E c \in proof..MaxProof : valid_proof(last_proof, c)
        \/ pc \in {"add_transaction", "create_block"})
       ~> (pc = "idle")
    /\ [][pc # "idle" /\ pc' = "idle" =>
            /\ Len(chain') = Len(chain) + 1
            /\ chain'[Len(chain')].proof = proof
            /\ valid_proof(chain[Len(chain)].proof, proof)]_vars

\* two mining callbacks completed, the second after a search of ten turns
MiningTerminatesWitness ==
    /\ pc = "idle"
    /\ Len(chain) = 3
    /\ chain[3].proof >= 10
    /\ valid_proof(chain[2].proof, chain[3].proof)
    /\ Len(transactions(chain[3])) >= 2

\* the transactions of the blocks b[1..n] of the chain, in chain order
RECURSIVE Sealed(_)
Sealed(n) == IF n = 0 THEN <<>>
             ELSE Sealed(n - 1) \o transactions(chain[n])

\* C19 (conservation and order): the transactions of the blocks in chain
\* order followed by the queue are the transactions every call of
\* add_transaction asked for, user's and mining's, in call order.
Conservation ==
    Sealed(Len(chain)) \o pending = [k \in 1..Len(calls) |-> Asked(calls[k])]

\* two mined blocks, user transactions in a block and in the queue
ConservationWitness ==
    /\ Len(chain) = 3
    /\ Len(calls) = 4
    /\ Len(pending) = 1
    /\ Len(Sealed(3)) = 3

\* == of two transaction dicts: Python compares the amounts 1.0 and 1 equal
Equal(a, b) ==
    /\ a.sender = b.sender
    /\ a.recipient = b.recipient
    /\ a.amount.num = b.amount.num

RewardLast ==
    /\ \A i \in 2..Len(chain) :
         /\ transactions(chain[i]) # <<>>
         /\ transactions(chain[i])[Len(transactions(chain[i]))] = Reward
    /\ transactions(chain[1]) = <<>>

\* C20 as stated: besides the reward closing every block after the first, no
\* entry of the queue is a reward transaction when a callback has returned.
RewardPlacementAsStated ==
    /\ RewardLast
    /\ pc = "idle" => \A j \in 1..Len(pending) : ~Equal(pending[j], Reward)

\* C20 (reward placement): every block after the first has transactions and
\* the last of them is the reward, the first block has none, and when a
\* callback has returned every reward mining appended is in a block.
RewardPlacement ==
    /\ RewardLast
    /\ pc = "idle" =>
         \A k \in 1..Len(calls) :
             calls[k].by = "mine_block_gui" => calls[k].at < Len(chain)

\* mined blocks, and a transaction with the reward's fields typed by the user
RewardPlacementWitness ==
    /\ pc = "idle"
    /\ Len(chain) = 3
    /\ \E j \in 1..Len(pending) : Equal(pending[j], Reward)

====
